---- MODULE Spec2Model ----
(***************************************************************************)
(* Model of cc9/token_parser.py: the recursive-descent Parser, its AST     *)
(* node factory and the linked list of local variables.                    *)
(*                                                                         *)
(* Python values are tagged so that values of different Python types can   *)
(* be compared: None, int and str.  A Node is a record with the five       *)
(* fields of class Node; an absent child is None.                          *)
(***************************************************************************)
EXTENDS Integers, Sequences, FiniteSets, TLC

VARIABLES tokens, pos, lv, lcur, nodes, pc, err, result

vars == <<tokens, pos, lv, lcur, nodes, pc, err, result>>

-----------------------------------------------------------------------------
(* Python values *)

None == [t |-> "None"]

IntVal(n) == [t |-> "int", v |-> n]

StrVal(s) == [t |-> "str", v |-> s]

-----------------------------------------------------------------------------
(* Bounds of the checked inputs *)

\* longest token stream (EOF excluded) of the exhaustive family
MaxLen == 4

\* most statement fragments concatenated into one program
MaxStmts == 3

\* most binary operators in an operator chain
MaxOps == 2

\* most calls of create_new_local_var_node in the table specification
MaxCalls == 4

Names == {"a", "b", "c"}

Numbers == {1, 2}

-----------------------------------------------------------------------------
(* Tokens and the token cursor (tokenizer.TokenOperator) *)

ReservedWords ==
    {"+", "-", "*", "/", ">", ">=", "<", "<=", "==", "!=", "=", "(", ")", ";"}

Reserved(s) == [kind |-> "RESERVED", value |-> StrVal(s)]

Identifier(s) == [kind |-> "IDENTIFIER", value |-> StrVal(s)]

Number(n) == [kind |-> "NUMBER", value |-> IntVal(n)]

EOF == [kind |-> "EOF", value |-> None]

\* cursor.chack_type(kind): the current token is of the kind; nothing moves
chack_type(toks, p, kind) == toks[p].kind = kind

\* cursor.consume(literal) returns true (and then advances) exactly when
\* the current token's literal is the given one
consume_ok(toks, p, literal) == toks[p].value = StrVal(literal)

\* cursor.get_value()
get_value(toks, p) == toks[p].value

\* cursor.proceed_cursor()
proceed_cursor(p) == p + 1

-----------------------------------------------------------------------------
(* Node *)

create_new_node(value, kind, left_hand, right_hand) ==
    [value |-> value, kind |-> kind, offset |-> None,
     left_hand |-> left_hand, right_hand |-> right_hand]

-----------------------------------------------------------------------------
(* LocalVariable list.  lv is the chain head.next, head.next.next, ... as  *)
(* a sequence of [name, offset]; lcur is the index of the entry the        *)
(* operator's cursor refers to, 0 when the cursor is None.                 *)

WordSize == 8

LocalVariable(name, offset) == [name |-> name, offset |-> offset]

\* LocalVariableOperator.find: index of the first entry of that name, 0 for
\* the LookupError
RECURSIVE find_from(_, _, _)
find_from(chain, i, value) ==
    IF i > Len(chain) THEN 0
    ELSE IF chain[i].name = value THEN i
    ELSE find_from(chain, i + 1, value)

find(chain, value) == find_from(chain, 1, value)

\* LocalVariableOperator.get_offset
get_offset(chain, cur) == chain[cur].offset

\* create_new_local_var_node without proceed_pointer after an append
create_new_local_var_node_cursor_stays(chain, cur, name) ==
    LET found == find(chain, name)
        target_offset ==
            IF found # 0 THEN chain[found].offset
            ELSE IF cur = 0 THEN WordSize
            ELSE get_offset(chain, cur) + WordSize
        chain2 ==
            IF found # 0 THEN chain
            ELSE IF cur = 0 THEN <<LocalVariable(name, target_offset)>>
            ELSE Append(SubSeq(chain, 1, cur), LocalVariable(name, target_offset))
        cur2 == IF found # 0 \/ cur # 0 THEN cur ELSE 1
        node == [create_new_node(StrVal(name), "LOCAL_VAR", None, None)
                    EXCEPT !.offset = IntVal(target_offset)]
    IN [node |-> node, lv |-> chain2, lcur |-> cur2]

\* create_new_local_var_node that appends without looking the name up
create_new_local_var_node_no_find(chain, cur, name) ==
    LET target_offset ==
            IF cur = 0 THEN WordSize ELSE get_offset(chain, cur) + WordSize
        chain2 ==
            IF cur = 0 THEN <<LocalVariable(name, target_offset)>>
            ELSE Append(SubSeq(chain, 1, cur), LocalVariable(name, target_offset))
        node == [create_new_node(StrVal(name), "LOCAL_VAR", None, None)
                    EXCEPT !.offset = IntVal(target_offset)]
    IN [node |-> node, lv |-> chain2, lcur |-> cur + 1]

\* Parser.create_new_local_var_node on the table <<chain, cur>>:
\* the node it returns and the table it leaves
create_new_local_var_node(chain, cur, name) ==
    LET found == find(chain, name)
        target_offset ==
            IF found # 0 THEN chain[found].offset
            ELSE IF cur = 0 THEN WordSize
            ELSE get_offset(chain, cur) + WordSize
        chain2 ==
            IF found # 0 THEN chain
            ELSE IF cur = 0 THEN <<LocalVariable(name, target_offset)>>
            ELSE Append(SubSeq(chain, 1, cur), LocalVariable(name, target_offset))
        cur2 ==
            IF found # 0 THEN cur
            ELSE IF cur = 0 THEN 1
            ELSE cur + 1
        node == [create_new_node(StrVal(name), "LOCAL_VAR", None, None)
                    EXCEPT !.offset = IntVal(target_offset)]
    IN [node |-> node, lv |-> chain2, lcur |-> cur2]

-----------------------------------------------------------------------------
(* Exceptions raised by the parser *)

NoErr == [exc |-> "none", msg |-> "none"]

\* primary: TypeError
NotNumberError == [exc |-> "TypeError", msg |-> "token is not of number type"]

\* primary: ValueError
ParenError == [exc |-> "ValueError", msg |-> "parentheses do not match"]

\* statement: ValueError
SemicolonError == [exc |-> "ValueError", msg |-> "program does not end with ;"]

\* run: IndexError
UnparsedError == [exc |-> "IndexError", msg |-> "unparsed tokens remain"]

-----------------------------------------------------------------------------
(* Grammar rules.  A rule takes the token list and the parser state        *)
(* s = [node, pos, lv, lcur, err] (cursor position and variable table;     *)
(* node is the left operand inside a loop) and returns the state it        *)
(* leaves, with the node it returns, or with err set when it raised.       *)

PState(p, chain, cur) ==
    [node |-> None, pos |-> p, lv |-> chain, lcur |-> cur, err |-> NoErr]

Raise(s, e) == [s EXCEPT !.err = e, !.node = None]

Advance(s) == [s EXCEPT !.pos = @ + 1]

\* create_new_node(value, kind, left, <result r of the right operand's rule>)
Fold(value, kind, left, r) ==
    IF r.err # NoErr THEN r
    ELSE [r EXCEPT !.node = create_new_node(value, kind, left, r.node)]

RECURSIVE assign(_, _)
RECURSIVE equality(_, _)
RECURSIVE equality_loop(_, _)
RECURSIVE relation(_, _)
RECURSIVE relation_loop(_, _)
RECURSIVE add(_, _)
RECURSIVE add_loop(_, _)
RECURSIVE mul(_, _)
RECURSIVE mul_loop(_, _)
RECURSIVE primary(_, _)

expression(toks, s) == assign(toks, s)

\* the first literal of the list (the order of the if/elif chain) that
\* cursor.consume accepts, "" when none is
RECURSIVE first_consumed(_, _, _)
first_consumed(toks, p, literals) ==
    IF literals = <<>> THEN ""
    ELSE IF consume_ok(toks, p, Head(literals)) THEN Head(literals)
    ELSE first_consumed(toks, p, Tail(literals))

\* NodeKind of the binary node each operator literal is folded into
KindOf(literal) ==
    CASE literal = "+" -> "ADD"
      [] literal = "-" -> "SUB"
      [] literal = "*" -> "MUL"
      [] literal = "/" -> "DIV"
      [] literal = ">" -> "GREATER"
      [] literal = ">=" -> "GREATER_EQUAL"
      [] literal = "<" -> "LOWER"
      [] literal = "<=" -> "LOWER_EQUAL"
      [] literal = "==" -> "EQUAL"
      [] literal = "!=" -> "NOT_EQUAL"
      [] literal = "=" -> "ASSIGN"

\* unary that builds primary - 0 for a leading "-"
unary_node_swapped(sign, p) ==
    IF sign = "-" /\ p.err = NoErr
    THEN [p EXCEPT !.node = create_new_node(None, "SUB", p.node,
                        create_new_node(IntVal(0), "NUMBER", None, None))]
    ELSE p

\* what unary returns, given the sign it consumed and the result p of primary
unary_node(sign, p) ==
    IF sign = "-"
    THEN Fold(None, "SUB", create_new_node(IntVal(0), "NUMBER", None, None), p)
    ELSE p

\* unary that leaves the left operand of the SUB node of "-" empty
unary_without_zero(toks, s) ==
    LET sign == first_consumed(toks, s.pos, <<"+", "-">>) IN
    IF sign = "-" THEN Fold(None, "SUB", None, primary(toks, Advance(s)))
    ELSE primary(toks, IF sign = "" THEN s ELSE Advance(s))

unary(toks, s) ==
    LET sign == first_consumed(toks, s.pos, <<"+", "-">>) IN
    unary_node(sign, primary(toks, IF sign = "" THEN s ELSE Advance(s)))

\* mul_loop that also folds "+" and "-" at its own level
RECURSIVE mul_loop_with_additive(_, _)
mul_loop_with_additive(toks, s) ==
    LET op == first_consumed(toks, s.pos, <<"*", "/", "+", "-">>) IN
    IF s.err # NoErr \/ op = "" THEN s
    ELSE mul_loop_with_additive(toks,
            Fold(StrVal(op), KindOf(op), s.node, unary(toks, Advance(s))))

mul_loop(toks, s) ==
    LET op == first_consumed(toks, s.pos, <<"*", "/">>) IN
    IF s.err # NoErr \/ op = "" THEN s
    ELSE mul_loop(toks,
            Fold(StrVal(op), KindOf(op), s.node, unary(toks, Advance(s))))

mul(toks, s) == mul_loop(toks, unary(toks, s))

\* add_loop that parses its right operand with add instead of mul
add_loop_right_recursive(toks, s) ==
    LET op == first_consumed(toks, s.pos, <<"+", "-">>) IN
    IF s.err # NoErr \/ op = "" THEN s
    ELSE Fold(StrVal(op), KindOf(op), s.node, add(toks, Advance(s)))

add_loop(toks, s) ==
    LET op == first_consumed(toks, s.pos, <<"+", "-">>) IN
    IF s.err # NoErr \/ op = "" THEN s
    ELSE add_loop(toks,
            Fold(StrVal(op), KindOf(op), s.node, mul(toks, Advance(s))))

add(toks, s) == add_loop(toks, mul(toks, s))

relation_loop(toks, s) ==
    LET op == first_consumed(toks, s.pos, <<">=", ">", "<=", "<">>) IN
    IF s.err # NoErr \/ op = "" THEN s
    ELSE relation_loop(toks,
            Fold(StrVal(op), KindOf(op), s.node, add(toks, Advance(s))))

relation(toks, s) == relation_loop(toks, add(toks, s))

equality_loop(toks, s) ==
    LET op == first_consumed(toks, s.pos, <<"==", "!=">>) IN
    IF s.err # NoErr \/ op = "" THEN s
    ELSE equality_loop(toks,
            Fold(StrVal(op), KindOf(op), s.node, relation(toks, Advance(s))))

equality(toks, s) == equality_loop(toks, relation(toks, s))

\* assign that loops over "=" with equality as the right operand
RECURSIVE assign_rest_looping(_, _)
assign_rest_looping(toks, l) ==
    IF l.err # NoErr THEN l
    ELSE IF consume_ok(toks, l.pos, "=") THEN
        assign_rest_looping(toks,
            Fold(StrVal("="), "ASSIGN", l.node, equality(toks, Advance(l))))
    ELSE l

\* assign after its call of equality returned l
assign_rest(toks, l) ==
    IF l.err # NoErr THEN l
    ELSE IF consume_ok(toks, l.pos, "=") THEN
        Fold(StrVal("="), "ASSIGN", l.node, assign(toks, Advance(l)))
    ELSE l

assign(toks, s) == assign_rest(toks, equality(toks, s))

\* primary after the expression inside "(" returned e
paren_close(toks, e) ==
    IF e.err # NoErr THEN e
    ELSE IF ~consume_ok(toks, e.pos, ")") THEN Raise(e, ParenError)
    ELSE Advance(e)

primary(toks, s) ==
    IF consume_ok(toks, s.pos, "(") THEN
        paren_close(toks, expression(toks, Advance(s)))
    ELSE IF chack_type(toks, s.pos, "IDENTIFIER") THEN
        LET value == get_value(toks, s.pos)
            made == create_new_local_var_node(s.lv, s.lcur, value.v)
        IN [s EXCEPT !.node = made.node, !.pos = proceed_cursor(s.pos),
                     !.lv = made.lv, !.lcur = made.lcur]
    ELSE IF ~chack_type(toks, s.pos, "NUMBER") THEN Raise(s, NotNumberError)
    ELSE [s EXCEPT !.node = create_new_node(get_value(toks, s.pos), "NUMBER",
                                            None, None),
                   !.pos = proceed_cursor(s.pos)]

\* statement after its expression returned e
statement_end(toks, e) ==
    IF e.err # NoErr THEN e
    ELSE IF ~consume_ok(toks, e.pos, ";") THEN Raise(e, SemicolonError)
    ELSE Advance(e)

statement(toks, s) == statement_end(toks, expression(toks, s))

-----------------------------------------------------------------------------
(* Token streams the parser is run on *)

ListVal(l) == [t |-> "list", v |-> l]

Alphabet ==
    {Reserved(w) : w \in ReservedWords}
        \cup {Identifier(n) : n \in Names}
        \cup {Number(n) : n \in Numbers}

\* tokens is any stream of at most MaxLen tokens, closed by EOF
ShortStream ==
    \E n \in 0..MaxLen : \E body \in [1..n -> Alphabet] :
        tokens = Append(body, EOF)

\* statements and broken statements that programs are assembled from
Fragments ==
    { <<Number(1), Reserved(";")>>,
      <<Identifier("a"), Reserved("="), Number(2), Reserved(";")>>,
      <<Identifier("b"), Reserved("+"), Identifier("a"), Reserved(";")>>,
      <<Reserved("-"), Identifier("c"), Reserved("*"), Number(2), Reserved(";")>>,
      <<Reserved("-"), Reserved("("), Identifier("b"), Reserved("-"), Number(2),
        Reserved(")"), Reserved(";")>>,
      <<Reserved("("), Reserved("+"), Number(1), Reserved("+"), Identifier("b"),
        Reserved(")"), Reserved("/"), Reserved("-"), Number(2), Reserved(";")>>,
      <<Number(1), Reserved("+"), Number(2), Reserved(";")>>,
      <<Identifier("a"), Reserved("<"), Identifier("b"), Reserved("=="),
        Identifier("c"), Reserved(">="), Number(1), Reserved(";")>>,
      <<Number(2), Reserved(">"), Identifier("c"), Reserved("!="),
        Number(1), Reserved("<="), Identifier("a"), Reserved(";")>>,
      <<Number(1), Reserved("+"), Reserved(";")>>,
      <<Reserved("("), Number(1), Reserved("+"), Number(2), Reserved(";")>>,
      <<Number(1), Reserved("+"), Number(2)>>,
      <<Number(2)>>,
      <<Identifier("a"), Reserved(")"), Reserved(";")>> }

RECURSIVE Concat(_)
Concat(ss) == IF ss = <<>> THEN <<>> ELSE Head(ss) \o Concat(Tail(ss))

\* tokens is a program of at most MaxStmts fragments, closed by EOF
ProgramStream ==
    \E n \in 0..MaxStmts : \E fs \in [1..n -> Fragments] :
        tokens = Append(Concat(fs), EOF)

BinaryOperators == {"+", "-", "*", "/", ">", ">=", "<", "<=", "==", "!=", "="}

Operands == {Identifier("a"), Identifier("b"), Number(1)}

\* x1 op1 x2 ... opk x(k+1) ; EOF  with k operators
RECURSIVE ChainOf(_, _)
ChainOf(xs, ops) ==
    IF ops = <<>> THEN <<xs[1], Reserved(";"), EOF>>
    ELSE <<xs[1], Reserved(ops[1])>> \o ChainOf(Tail(xs), Tail(ops))

\* tokens is an operator chain of at most MaxOps operators
ChainStream ==
    \E k \in 1..MaxOps :
        \E xs \in [1..(k + 1) -> Operands], ops \in [1..k -> BinaryOperators] :
            tokens = ChainOf(xs, ops)

-----------------------------------------------------------------------------
(* Parser.run, one step per iteration of the loop of Parser.program *)

\* Parser.__init__: a cursor on the first token, an empty variable list
InitParser ==
    /\ pos = 1
    /\ lv = <<>>
    /\ lcur = 0
    /\ nodes = <<>>
    /\ err = NoErr
    /\ result = None

Init ==
    /\ ShortStream \/ ProgramStream
    /\ InitParser
    /\ pc = "program"

\* one iteration of the while loop of program: nodes.append(statement())
\* Returned with the node put in front of nodes instead of appended
ReturnedInFront(r, next) ==
    /\ pos' = r.pos
    /\ lv' = r.lv
    /\ lcur' = r.lcur
    /\ IF r.err # NoErr
       THEN /\ pc' = "raised"
            /\ err' = r.err
            /\ nodes' = nodes
       ELSE /\ pc' = next
            /\ err' = err
            /\ nodes' = <<r.node>> \o nodes

\* the parser after a rule called from program left r: the exception
\* leaves run, or the node is appended to nodes and control goes to next
Returned(r, next) ==
    /\ pos' = r.pos
    /\ lv' = r.lv
    /\ lcur' = r.lcur
    /\ IF r.err # NoErr
       THEN /\ pc' = "raised"
            /\ err' = r.err
            /\ nodes' = nodes
       ELSE /\ pc' = next
            /\ err' = err
            /\ nodes' = Append(nodes, r.node)

ProgramStatement ==
    /\ pc = "program"
    /\ ~chack_type(tokens, pos, "EOF")
    /\ Returned(statement(tokens, PState(pos, lv, lcur)), "program")
    /\ UNCHANGED <<tokens, result>>

\* program that returns as soon as it holds one statement
ProgramReturnAfterFirst ==
    /\ pc = "program"
    /\ chack_type(tokens, pos, "EOF") \/ nodes # <<>>
    /\ pc' = "run_check"
    /\ UNCHANGED <<tokens, pos, lv, lcur, nodes, err, result>>

\* the while loop of program ends and program returns nodes to run
ProgramReturn ==
    /\ pc = "program"
    /\ chack_type(tokens, pos, "EOF")
    /\ pc' = "run_check"
    /\ UNCHANGED <<tokens, pos, lv, lcur, nodes, err, result>>

\* run: the end-of-stream check, then return nodes
RunCheck ==
    /\ pc = "run_check"
    /\ IF ~chack_type(tokens, pos, "EOF")
       THEN /\ pc' = "raised"
            /\ err' = UnparsedError
            /\ result' = result
       ELSE /\ pc' = "returned"
            /\ err' = err
            /\ result' = ListVal(nodes)
    /\ UNCHANGED <<tokens, pos, lv, lcur, nodes>>

Next == ProgramStatement \/ ProgramReturn \/ RunCheck

Spec == Init /\ [][Next]_vars

\* the parser run on operator chains
InitChain ==
    /\ ChainStream
    /\ InitParser
    /\ pc = "program"

SpecChain == InitChain /\ [][Next]_vars

-----------------------------------------------------------------------------
(* Parser.unary called once on a fresh parser *)

InitUnary ==
    /\ ShortStream \/ ProgramStream
    /\ InitParser
    /\ pc = "unary"

CallUnary ==
    /\ pc = "unary"
    /\ Returned(unary(tokens, PState(pos, lv, lcur)), "unary_done")
    /\ UNCHANGED <<tokens, result>>

NextUnary == CallUnary

SpecUnary == InitUnary /\ [][NextUnary]_vars

-----------------------------------------------------------------------------
(* Parser.create_new_local_var_node called repeatedly on one parser *)

InitTable ==
    /\ tokens = <<EOF>>
    /\ InitParser
    /\ pc = "table"

CallCreateLocalVar ==
    /\ pc = "table"
    /\ Len(nodes) < MaxCalls
    /\ \E name \in Names :
        LET made == create_new_local_var_node(lv, lcur, name) IN
        /\ nodes' = Append(nodes, made.node)
        /\ lv' = made.lv
        /\ lcur' = made.lcur
    /\ UNCHANGED <<tokens, pos, pc, err, result>>

NextTable == CallCreateLocalVar

SpecTable == InitTable /\ [][NextTable]_vars

-----------------------------------------------------------------------------
(* Reference reading of an operator chain x1 op1 x2 ... opk x(k+1) ;       *)

\* number of operators of the chain in tokens
ChainOps == (Len(tokens) - 3) \div 2

ChainOperand(i) == tokens[2 * i - 1]

ChainOperator(i) == tokens[2 * i].value.v

\* binding strength of a binary operator, loosest first
Binding(op) ==
    CASE op = "=" -> 1
      [] op \in {"==", "!="} -> 2
      [] op \in {">", ">=", "<", "<="} -> 3
      [] op \in {"+", "-"} -> 4
      [] op \in {"*", "/"} -> 5

\* position among the distinct identifiers of the chain, in first-seen order,
\* of the identifier that is operand i
SeenRank(i) ==
    LET first == CHOOSE j \in 1..i :
                    /\ ChainOperand(j) = ChainOperand(i)
                    /\ \A h \in 1..(j - 1) : ChainOperand(h) # ChainOperand(i)
    IN Cardinality({ChainOperand(h).value.v :
                        h \in {g \in 1..first : ChainOperand(g).kind = "IDENTIFIER"}})

\* the leaf expected for operand i
ChainLeaf(i) ==
    IF ChainOperand(i).kind = "NUMBER"
    THEN [value |-> ChainOperand(i).value, kind |-> "NUMBER", offset |-> None,
          left_hand |-> None, right_hand |-> None]
    ELSE [value |-> ChainOperand(i).value, kind |-> "LOCAL_VAR",
          offset |-> IntVal(WordSize * SeenRank(i)),
          left_hand |-> None, right_hand |-> None]

BinaryNode(op, l, r) ==
    [value |-> StrVal(op), kind |-> KindOf(op), offset |-> None,
     left_hand |-> l, right_hand |-> r]

\* the operator at which operands lo..hi split: the loosest one, the first
\* such for "=" (which groups to the right) and the last such otherwise
SplitAt(lo, hi) ==
    LET loosest == CHOOSE j \in lo..(hi - 1) :
                     \A h \in lo..(hi - 1) :
                        Binding(ChainOperator(j)) <= Binding(ChainOperator(h))
        same == {j \in lo..(hi - 1) :
                    Binding(ChainOperator(j)) = Binding(ChainOperator(loosest))}
    IN IF ChainOperator(loosest) = "="
       THEN CHOOSE j \in same : \A h \in same : j <= h
       ELSE CHOOSE j \in same : \A h \in same : j >= h

\* the tree standard precedence and associativity give operands lo..hi
RECURSIVE PrecedenceTree(_, _)
PrecedenceTree(lo, hi) ==
    IF lo = hi THEN ChainLeaf(lo)
    ELSE BinaryNode(ChainOperator(SplitAt(lo, hi)),
                    PrecedenceTree(lo, SplitAt(lo, hi)),
                    PrecedenceTree(SplitAt(lo, hi) + 1, hi))

\* x_lo = (x_(lo+1) = ... = x_hi)
RECURSIVE RightNested(_, _)
RightNested(lo, hi) ==
    IF lo = hi THEN ChainLeaf(lo)
    ELSE BinaryNode(ChainOperator(lo), ChainLeaf(lo), RightNested(lo + 1, hi))

\* ((x_1 op_1 x_2) ... ) op_(hi-1) x_hi
RECURSIVE LeftNested(_)
LeftNested(hi) ==
    IF hi = 1 THEN ChainLeaf(1)
    ELSE BinaryNode(ChainOperator(hi - 1), LeftNested(hi - 1), ChainLeaf(hi))

\* all nodes of a tree
RECURSIVE NodesOf(_)
NodesOf(n) ==
    IF n = None THEN {}
    ELSE {n} \cup NodesOf(n.left_hand) \cup NodesOf(n.right_hand)

Returned1 == pc = "returned" /\ Len(result.v) = 1

\* C1: the tree run returns for an unparenthesized operator chain is the
\* tree of standard precedence: "*" and "/" nodes lie below adjacent "+"
\* and "-" nodes, those below the relational nodes, those below "==" and
\* "!=" nodes, and those below "=" nodes, in whatever order they appear
C1_Precedence ==
    pc = "returned" =>
        /\ result.v = <<PrecedenceTree(1, ChainOps + 1)>>
        /\ \A n \in NodesOf(result.v[1]) :
              \A c \in {n.left_hand, n.right_hand} \ {None} :
                 c.kind \notin {"NUMBER", "LOCAL_VAR"} =>
                    Binding(c.value.v) >= Binding(n.value.v)

\* a + b * c ; gave Add(a, Mul(b, c)) and a chain op1 op2 with op1 tighter
\* than op2 was parsed too
C1_Witness ==
    /\ Returned1
    /\ ChainOps = 2
    /\ ChainOperator(1) = "+"
    /\ ChainOperator(2) = "*"
    /\ result.v[1].kind = "ADD"
    /\ result.v[1].right_hand.kind = "MUL"

AllOperatorsIn(S) == \A i \in 1..ChainOps : ChainOperator(i) \in S

\* C2: a chain x1 = x2 = ... = xn ; yields the ASSIGN node of x1 and the
\* ASSIGN node of x2 = ... = xn, and no ASSIGN node is ever the left child
\* of an ASSIGN node
C2_AssignRightAssociative ==
    pc = "returned" =>
        /\ AllOperatorsIn({"="}) =>
              result.v = <<RightNested(1, ChainOps + 1)>>
        /\ \A n \in NodesOf(result.v[1]) :
              n.kind = "ASSIGN" => n.left_hand.kind # "ASSIGN"

\* a = b = c ; gave Assign(a, Assign(b, c))
C2_Witness ==
    /\ Returned1
    /\ ChainOps >= 2
    /\ AllOperatorsIn({"="})
    /\ result.v[1].kind = "ASSIGN"
    /\ result.v[1].right_hand.kind = "ASSIGN"
    /\ result.v[1].left_hand.kind = "LOCAL_VAR"

LeftAssociativeLevels ==
    {{"==", "!="}, {">", ">=", "<", "<="}, {"+", "-"}, {"*", "/"}}

\* C3: a chain whose operators all belong to one of the levels equality,
\* relation, add, mul yields the last operator's node over the tree of the
\* chain before it and the last operand
C3_LeftAssociative ==
    pc = "returned" =>
        /\ (\E level \in LeftAssociativeLevels : AllOperatorsIn(level)) =>
              result.v = <<LeftNested(ChainOps + 1)>>
        /\ \A n \in NodesOf(result.v[1]) :
              (n.kind \notin {"NUMBER", "LOCAL_VAR", "ASSIGN"}
                    /\ n.right_hand.kind \notin {"NUMBER", "LOCAL_VAR"}) =>
                 Binding(n.right_hand.value.v) > Binding(n.value.v)

\* a - b - c ; gave Sub(Sub(a, b), c)
C3_Witness ==
    /\ Returned1
    /\ ChainOps = 2
    /\ ChainOperator(1) = "-"
    /\ ChainOperator(2) = "-"
    /\ result.v[1].kind = "SUB"
    /\ result.v[1].left_hand.kind = "SUB"
    /\ result.v[1].right_hand.kind = "LOCAL_VAR"

-----------------------------------------------------------------------------
(* The variable table under calls of create_new_local_var_node; nodes      *)
(* holds the LOCAL_VAR node of each call, in call order.                   *)

CallName(i) == nodes[i].value.v

\* the call that first named the variable of call i
FirstCall(i) ==
    CHOOSE j \in 1..i :
        /\ CallName(j) = CallName(i)
        /\ \A h \in 1..(j - 1) : CallName(h) # CallName(i)

\* k such that the variable of call i is the k-th distinct one
CallRank(i) == Cardinality({CallName(h) : h \in 1..FirstCall(i)})

\* C4: the k-th distinct variable name carries offset 8 * k in the table
\* and in every LOCAL_VAR node made for it, so equal names have equal
\* offsets and different names different offsets
C4_OffsetsInFirstSeenOrder ==
    /\ Len(lv) = Cardinality({CallName(i) : i \in DOMAIN nodes})
    /\ \A k \in DOMAIN lv : lv[k].offset = WordSize * k
    /\ \A i \in DOMAIN nodes :
          /\ nodes[i].kind = "LOCAL_VAR"
          /\ nodes[i].offset = IntVal(WordSize * CallRank(i))
          /\ lv[CallRank(i)].name = CallName(i)
    /\ \A i, j \in DOMAIN nodes :
          (CallName(i) = CallName(j)) <=> (nodes[i].offset = nodes[j].offset)

\* three names came in the order x, y, x, z and got 8, 16, 8, 24
C4_Witness ==
    /\ Len(nodes) = 4
    /\ CallName(1) = CallName(3)
    /\ Cardinality({CallName(i) : i \in DOMAIN nodes}) = 3
    /\ nodes[3].offset = IntVal(8)
    /\ nodes[4].offset = IntVal(24)

\* one call of create_new_local_var_node, seen from outside
LookupStep ==
    LET made == nodes'[Len(nodes')]
        name == made.value.v
        known == {k \in DOMAIN lv : lv[k].name = name}
    IN IF known # {}
       THEN /\ lv' = lv
            /\ lcur' = lcur
            /\ \E k \in known : made.offset = IntVal(lv[k].offset)
       ELSE /\ Len(lv') = Len(lv) + 1
            /\ SubSeq(lv', 1, Len(lv)) = lv
            /\ lv'[Len(lv')].name = name

\* C5: a call with a name already in the table returns its offset and
\* leaves entries, their order and the tail cursor as they were; a call
\* with a new name appends exactly one entry
C5_IdempotentLookup == [][nodes' # nodes => LookupStep]_vars

\* a name was looked up again in a table of two entries
C5_Witness ==
    /\ pc = "table"
    /\ Len(lv) = 2
    /\ Len(nodes) > 2
    /\ lcur = 2

-----------------------------------------------------------------------------
(* unary *)

NumberZero ==
    [value |-> IntVal(0), kind |-> "NUMBER", offset |-> None,
     left_hand |-> None, right_hand |-> None]

\* the leaf a fresh parser makes of an identifier or number token
FirstLeaf(tok) ==
    [value |-> tok.value, kind |-> IF tok.kind = "NUMBER" THEN "NUMBER" ELSE "LOCAL_VAR",
     offset |-> IF tok.kind = "NUMBER" THEN None ELSE IntVal(WordSize),
     left_hand |-> None, right_hand |-> None]

IsOperand(tok) == tok.kind \in {"NUMBER", "IDENTIFIER"}

\* the node primary returns when called at token p of a fresh parser
PrimaryAt(p) == primary(tokens, PState(p, <<>>, 0)).node

\* C6: after a leading "-" unary returns a SUB node of a new NUMBER 0 node
\* and the node of primary; after a leading "+" or no sign it returns the
\* node of primary and nothing more
C6_UnaryMinus ==
    pc = "unary_done" =>
        IF tokens[1].value = StrVal("-")
        THEN /\ nodes = << [value |-> None, kind |-> "SUB", offset |-> None,
                            left_hand |-> NumberZero,
                            right_hand |-> PrimaryAt(2)] >>
             /\ IsOperand(tokens[2]) => nodes[1].right_hand = FirstLeaf(tokens[2])
        ELSE IF tokens[1].value = StrVal("+")
        THEN /\ nodes = <<PrimaryAt(2)>>
             /\ IsOperand(tokens[2]) => nodes[1] = FirstLeaf(tokens[2])
        ELSE /\ nodes = <<PrimaryAt(1)>>
             /\ IsOperand(tokens[1]) => nodes[1] = FirstLeaf(tokens[1])

\* "-" before a parenthesized expression gave SUB(0, that expression)
C6_Witness ==
    /\ pc = "unary_done"
    /\ tokens[1].value = StrVal("-")
    /\ tokens[2].value = StrVal("(")
    /\ nodes[1].kind = "SUB"
    /\ nodes[1].left_hand = NumberZero
    /\ nodes[1].right_hand.kind = "SUB"

-----------------------------------------------------------------------------
(* Parser.run *)

RECURSIVE WellShaped(_)
WellShaped(n) ==
    IF n.kind \in {"NUMBER", "LOCAL_VAR"}
    THEN n.left_hand = None /\ n.right_hand = None
    ELSE /\ n.left_hand # None
         /\ n.right_hand # None
         /\ WellShaped(n.left_hand)
         /\ WellShaped(n.right_hand)

NodeKinds ==
    {"ADD", "SUB", "MUL", "DIV", "GREATER", "GREATER_EQUAL", "LOWER",
     "LOWER_EQUAL", "EQUAL", "NOT_EQUAL", "ASSIGN", "LOCAL_VAR", "NUMBER"}

\* C7: in every tree run returns, NUMBER and LOCAL_VAR nodes have no
\* children and nodes of every other kind have both
C7_TreeShape ==
    pc = "returned" =>
        \A i \in DOMAIN result.v :
            /\ WellShaped(result.v[i])
            /\ \A n \in NodesOf(result.v[i]) : n.kind \in NodeKinds

\* a program with a unary minus, a parenthesis and a division was returned
C7_Witness ==
    /\ pc = "returned"
    /\ \E i \in DOMAIN result.v :
          /\ result.v[i].kind = "DIV"
          /\ \E n \in NodesOf(result.v[i]) : n.kind = "SUB" /\ n.value = None
    /\ \E i \in DOMAIN result.v : result.v[i].kind = "EQUAL"

RaisedErrors == {NotNumberError, ParenError, SemicolonError, UnparsedError}

\* C8: a grammar mismatch ends run with the error of the expectation that
\* was violated, run returns no list, and the kind of that error is the
\* kind of no other error
C8_DistinctErrorKinds ==
    pc = "raised" =>
        /\ result = None
        /\ err \in RaisedErrors
        /\ err = NotNumberError =>
              ~IsOperand(tokens[pos]) /\ tokens[pos].value # StrVal("(")
        /\ err = ParenError => tokens[pos].value # StrVal(")")
        /\ err = SemicolonError => tokens[pos].value # StrVal(";")
        /\ \A e \in RaisedErrors \ {err} : e.exc # err.exc

\* the statements of tokens end at these positions
Semicolons == {i \in DOMAIN tokens : tokens[i].value = StrVal(";")}

\* the statement token i belongs to
StatementOf(i) == 1 + Cardinality({j \in Semicolons : j < i})

\* the values of the identifier and number tokens of statement k, from
\* token i on, in source order
RECURSIVE OperandValues(_, _)
OperandValues(i, k) ==
    IF i > Len(tokens) THEN <<>>
    ELSE (IF IsOperand(tokens[i]) /\ StatementOf(i) = k
          THEN <<tokens[i].value>> ELSE <<>>) \o OperandValues(i + 1, k)

\* the values of the leaves of a tree from left to right, the 0 that unary
\* supplies left out
RECURSIVE LeafValues(_)
LeafValues(n) ==
    IF n.kind \in {"NUMBER", "LOCAL_VAR"} THEN <<n.value>>
    ELSE IF n.kind = "SUB" /\ n.value = None THEN LeafValues(n.right_hand)
    ELSE LeafValues(n.left_hand) \o LeafValues(n.right_hand)

\* C9 as stated: run returns a non-empty sequence for every accepted stream
C9_NonEmpty == pc = "returned" => Len(result.v) >= 1

\* C9 amended: run returns one tree per statement, in source order; the
\* sequence is empty exactly for the stream that holds no statement
C9_OneTreePerStatement ==
    pc = "returned" =>
        /\ Len(result.v) = Cardinality(Semicolons)
        /\ \A k \in DOMAIN result.v : LeafValues(result.v[k]) = OperandValues(1, k)
        /\ (result.v = <<>>) <=> (tokens = <<EOF>>)

\* three statements with different operands were returned
C9_Witness ==
    /\ pc = "returned"
    /\ Len(result.v) = 3
    /\ LeafValues(result.v[1]) # LeafValues(result.v[2])
    /\ LeafValues(result.v[2]) # LeafValues(result.v[3])

\* C10: program hands over to run only on the EOF token, so the check of
\* run never raises; tokens after a complete statement start a further
\* statement and end in its tree or in one of the other errors
C10_NoTrailingTokensError ==
    /\ pc = "run_check" => chack_type(tokens, pos, "EOF")
    /\ pc = "returned" => chack_type(tokens, pos, "EOF")
    /\ err # UnparsedError
    /\ (pc = "raised" /\ nodes # <<>>) =>
          err \in {NotNumberError, ParenError, SemicolonError}

\* a lone number after a complete statement ended in the error of the
\* missing ";"
C10_Witness ==
    /\ pc = "raised"
    /\ Len(nodes) = 1
    /\ Len(tokens) = pos
    /\ tokens[pos - 1].kind = "NUMBER"
    /\ tokens[pos - 2].value = StrVal(";")
    /\ err = SemicolonError

=============================================================================
